---- MODULE Spec2Model ----
(***************************************************************************)
(* Packet headers declared by make_header! / make_header1! (headers.rs):   *)
(* a header owns a byte buffer; fields are MSB-0 bit ranges read and       *)
(* written one bit at a time through bit_range / set_bit_range.            *)
(*                                                                         *)
(* A u64 (or u8) machine word is a sequence of bits, most significant      *)
(* first, so that shifts drop bits exactly as the fixed-width word does.   *)
(* A buffer is a sequence of bytes 0..255; buffer byte k of the code       *)
(* (0-based) is element k+1 here.                                          *)
(***************************************************************************)
EXTENDS Integers, Sequences, FiniteSets, TLC

\* size_of::<u8>() * 8
bit_len == 8

\* size_of::<u64>() * 8
value_bit_len == 64

\* The number of operations applied to the headers of one run.
MaxOps == 2

(***************************************************************************)
(* Machine words                                                           *)
(***************************************************************************)
Pow2(n) == 2 ^ n

\* n as a word of W bits, for n < 2^31
Word(n, W) == [k \in 1..W |-> IF W - k > 30 THEN 0 ELSE (n \div Pow2(W - k)) % 2]

\* a u64 literal written as its 8 bytes, most significant first
U64(bs) == [k \in 1..value_bit_len |->
              (bs[((k - 1) \div 8) + 1] \div Pow2(7 - ((k - 1) % 8))) % 2]

\* value <<= 1  (the top bit falls off)
Shl1(v) == Tail(v) \o <<0>>

\* value >>= 1
Shr1(v) == <<0>> \o SubSeq(v, 1, Len(v) - 1)

\* value |= b, b a single bit
OrBit0(v, b) == [v EXCEPT ![Len(v)] = IF b = 1 THEN 1 ELSE @]

\* value & 1
LowBit(v) == v[Len(v)]

\* value << s and value >> s, 0 <= s < Len(v)
Shl(v, s) == [k \in 1..Len(v) |-> IF k + s <= Len(v) THEN v[k + s] ELSE 0]
Shr(v, s) == [k \in 1..Len(v) |-> IF k - s >= 1 THEN v[k - s] ELSE 0]

\* `as u8`: the low 8 bits as a byte
RECURSIVE BitsToNat(_)
BitsToNat(bits) ==
    IF bits = <<>> THEN 0
    ELSE 2 * BitsToNat(SubSeq(bits, 1, Len(bits) - 1)) + bits[Len(bits)]

AsU8(v) == BitsToNat(SubSeq(v, Len(v) - 7, Len(v)))

(***************************************************************************)
(* Declared schemas                                                        *)
(***************************************************************************)
Field(n, s, e) == [name |-> n, start |-> s, end |-> e]

Ethernet ==
    [name |-> "Ethernet", size |-> 14, macro |-> "make_header",
     fields |-> << Field("dst", 0, 47), Field("src", 48, 95), Field("etype", 96, 111) >>,
     default |-> << \h00, \h01, \h02, \h03, \h04, \h05,
                    \h06, \h07, \h08, \h09, \h0a, \h0b,
                    \h08, \h00 >>]

Vlan ==
    [name |-> "Vlan", size |-> 4, macro |-> "make_header",
     fields |-> << Field("pcp", 0, 2), Field("cfi", 3, 3), Field("vid", 4, 15),
                   Field("etype", 16, 31) >>,
     default |-> << \h00, \h0a, \h08, \h00 >>]

IPv4 ==
    [name |-> "IPv4", size |-> 20, macro |-> "make_header",
     fields |-> << Field("version", 0, 3), Field("ihl", 4, 7), Field("diffserv", 8, 15),
                   Field("total_len", 16, 31), Field("identification", 32, 47),
                   Field("flags", 48, 50), Field("frag_startset", 51, 63),
                   Field("ttl", 64, 71), Field("protocol", 72, 79),
                   Field("header_checksum", 80, 95), Field("src", 96, 127),
                   Field("dst", 128, 159) >>,
     default |-> << \h45, \h00, \h00, \h14, \h00, \h33, \h40, \hdd, \h40, \h06, \hfa, \hec,
                    \hc0, \ha8, \h00, \h01,
                    \hc0, \ha8, \h00, \h02 >>]

IPv6 ==
    [name |-> "IPv6", size |-> 40, macro |-> "make_header",
     fields |-> << Field("version", 0, 3), Field("traffic_class", 4, 11),
                   Field("flow_label", 12, 31), Field("payload_len", 32, 47),
                   Field("next_hdr", 48, 55), Field("hop_limit", 56, 63),
                   Field("src", 64, 191), Field("dst", 192, 319) >>,
     default |-> << \h60, \h00, \h00, \h00, \h00, \h2e, \h06, \h40,
                    \h20, \h01, \h0d, \hb8, \h85, \ha3, \h00, \h00,
                    \h00, \h00, \h8a, \h2e, \h03, \h70, \h73, \h34,
                    \h20, \h01, \h0d, \hb8, \h85, \ha3, \h00, \h00,
                    \h00, \h00, \h8a, \h2e, \h03, \h70, \h73, \h35 >>]

TCP ==
    [name |-> "TCP", size |-> 20, macro |-> "make_header",
     fields |-> << Field("src", 0, 15), Field("dst", 16, 31), Field("seq_no", 32, 63),
                   Field("ack_no", 64, 95), Field("data_startset", 96, 99),
                   Field("res", 100, 103), Field("flags", 104, 111),
                   Field("window", 112, 127), Field("checksum", 128, 143),
                   Field("urgent_ptr", 144, 159) >>,
     default |-> << \h04, \hd2, \h00, \h50, \h00, \h00, \h00, \h00, \h00, \h00, \h00, \h00,
                    \h50, \h02, \h20, \h00, \h0d, \h2c, \h00, \h00 >>]

UDP ==
    [name |-> "UDP", size |-> 8, macro |-> "make_header",
     fields |-> << Field("src", 0, 15), Field("dst", 16, 31), Field("length", 32, 47),
                   Field("checksum", 48, 63) >>,
     default |-> << \h04, \hd2, \h00, \h50, \h00, \h00, \h00, \h00 >>]

Vxlan ==
    [name |-> "Vxlan", size |-> 8, macro |-> "make_header",
     fields |-> << Field("flags", 0, 7), Field("reserved", 8, 31), Field("vni", 32, 55),
                   Field("reserved2", 56, 63) >>,
     default |-> << \h08, \h00, \h00, \h00, \h00, \h07, \hd0, \h00 >>]

\* Tester with byte4 laid out as the four bytes after byte3
Tester_byte4_after_byte3 ==
    [name |-> "Tester", size |-> 40, macro |-> "make_header1",
     fields |-> << Field("bit1", 0, 0), Field("bit2", 1, 2), Field("bit3", 3, 5),
                   Field("bit4", 6, 9), Field("bit5", 10, 14), Field("bit6", 15, 20),
                   Field("bit7", 21, 27), Field("bit8", 28, 35), Field("bit9", 36, 44),
                   Field("bit10", 45, 47), Field("byte1", 48, 55), Field("byte2", 56, 71),
                   Field("byte3", 72, 95), Field("byte4", 96, 127),
                   Field("byte8", 128, 191), Field("byte16", 192, 319) >>,
     default |-> << \hff, \hff, \hff, \hff, \hff, \hff,
                    \h20, \h01, \h0d, \hb8, \h85, \ha3, \hf0, \he0, \hd0, \hc0,
                    \h8a, \h2e, \h03, \h70, \h73, \h34, \h45, \h67,
                    \h20, \h01, \h0d, \hb8, \h85, \ha3, \h00, \h00,
                    \h00, \h00, \h8a, \h2e, \h03, \h70, \h73, \h35 >>]

Tester ==
    [name |-> "Tester", size |-> 40, macro |-> "make_header1",
     fields |-> << Field("bit1", 0, 0), Field("bit2", 1, 2), Field("bit3", 3, 5),
                   Field("bit4", 6, 9), Field("bit5", 10, 14), Field("bit6", 15, 20),
                   Field("bit7", 21, 27), Field("bit8", 28, 35), Field("bit9", 36, 44),
                   Field("bit10", 45, 47), Field("byte1", 48, 55), Field("byte2", 56, 71),
                   Field("byte3", 72, 95), Field("byte4", 66, 127),
                   Field("byte8", 128, 191), Field("byte16", 192, 319) >>,
     default |-> << \hff, \hff, \hff, \hff, \hff, \hff,
                    \h20, \h01, \h0d, \hb8, \h85, \ha3, \hf0, \he0, \hd0, \hc0,
                    \h8a, \h2e, \h03, \h70, \h73, \h34, \h45, \h67,
                    \h20, \h01, \h0d, \hb8, \h85, \ha3, \h00, \h00,
                    \h00, \h00, \h8a, \h2e, \h03, \h70, \h73, \h35 >>]

\* A declaration whose default vector is shorter than its declared size:
\* make_header1!(Short 2 () vec![0x0])
Short ==
    [name |-> "Short", size |-> 2, macro |-> "make_header1",
     fields |-> << >>,
     default |-> << \h00 >>]

Schemas == {Ethernet, Vlan, IPv4, IPv6, TCP, UDP, Vxlan, Tester, Short}

SchemaNames == {s.name : s \in Schemas}

Schema(n) == CHOOSE s \in Schemas : s.name = n

FieldsOf(n) == {Schema(n).fields[k] : k \in 1..Len(Schema(n).fields)}

FieldNamed(n, f) == CHOOSE x \in FieldsOf(n) : x.name = f

\* $field_size(): $end - $start + 1
field_size(f) == f.end - f.start + 1

\* the word a bit-range call works on: u64 for make_header1 and for the field
\* accessors, u8 for the byte runs of make_header
WordBits(macro) == IF macro = "make_header1" THEN value_bit_len ELSE bit_len

(***************************************************************************)
(* bit_range / set_bit_range                                               *)
(***************************************************************************)
\* BufBit numbering the bits of a byte from its least significant end
BufBit_lsb0(inner, i) ==
    (inner[(i \div bit_len) + 1] \div Pow2(i % bit_len)) % 2

\* (self.inner[i / bit_len] >> (bit_len - i % bit_len - 1)) & 1
BufBit(inner, i) ==
    (inner[(i \div bit_len) + 1] \div Pow2(bit_len - (i % bit_len) - 1)) % 2

\* bit_range_step with the two statements of the loop body exchanged
bit_range_step_late_shift(inner, st, i) ==
    IF ~st.ok THEN st
    ELSE IF i \div bit_len >= Len(inner) THEN [ok |-> FALSE, value |-> st.value]
    ELSE [ok |-> TRUE, value |-> Shl1(OrBit0(st.value, BufBit(inner, i)))]

\* One turn of `for i in lsb..=msb`: value <<= 1; value |= bit(i) as u64;
\* indexing past the buffer panics and ends the loop.
bit_range_step(inner, st, i) ==
    IF ~st.ok THEN st
    ELSE IF i \div bit_len >= Len(inner) THEN [ok |-> FALSE, value |-> st.value]
    ELSE [ok |-> TRUE, value |-> OrBit0(Shl1(st.value), BufBit(inner, i))]

\* The turns for i = lo, lo + 1, ..., hi in that order, as long as none
\* has panicked (the range is halved only to keep the evaluation shallow).
RECURSIVE bit_range_loop(_, _, _, _)
bit_range_loop(inner, st, lo, hi) ==
    IF ~st.ok \/ lo > hi THEN st
    ELSE IF lo = hi THEN bit_range_step(inner, st, lo)
    ELSE LET mid == (lo + hi) \div 2
         IN  bit_range_loop(inner, bit_range_loop(inner, st, lo, mid), mid + 1, hi)

\* value << (value_bit_len - (msb - lsb + 1)) >> (value_bit_len - (msb - lsb + 1))
\* W is value_bit_len of the word read.  When the span is wider than the word
\* the usize subtraction overflows: a panic where overflow checks are compiled
\* in, a wrapped shift amount (masked to the word width) where they are not.
bit_range(inner, msb, lsb, W, overflow_checks) ==
    LET r == bit_range_loop(inner, [ok |-> TRUE, value |-> Word(0, W)], lsb, msb)
        s == W - (msb - lsb + 1)
    IN  IF ~r.ok THEN [ok |-> FALSE, value |-> << >>, panic |-> "index out of bounds"]
        ELSE IF s < 0 /\ overflow_checks
             THEN [ok |-> FALSE, value |-> << >>, panic |-> "attempt to subtract with overflow"]
        ELSE [ok |-> TRUE, value |-> Shr(Shl(r.value, s % W), s % W), panic |-> ""]

\* WriteBit assigning the byte instead of masking it
WriteBit_clobber(inner, i, b) ==
    [inner EXCEPT ![(i \div bit_len) + 1] = b * Pow2(bit_len - (i % bit_len) - 1)]

\* self.inner[i / bit_len] &= !(1 << k);
\* self.inner[i / bit_len] |= ((value & 1) as u8) << k;      k = bit_len - i % bit_len - 1
WriteBit(inner, i, b) ==
    LET k == bit_len - (i % bit_len) - 1
        byte == inner[(i \div bit_len) + 1]
        cleared == byte - ((byte \div Pow2(k)) % 2) * Pow2(k)
    IN  [inner EXCEPT ![(i \div bit_len) + 1] = cleared + b * Pow2(k)]

\* set_bit_range_step without `value >>= 1`
set_bit_range_step_no_shift(st, i) ==
    IF ~st.ok THEN st
    ELSE IF i \div bit_len >= Len(st.inner) THEN [st EXCEPT !.ok = FALSE]
    ELSE [ok |-> TRUE, inner |-> WriteBit(st.inner, i, LowBit(st.value)),
          value |-> st.value]

\* One turn of `for i in (lsb..=msb).rev()`: write bit i; value >>= 1;
set_bit_range_step(st, i) ==
    IF ~st.ok THEN st
    ELSE IF i \div bit_len >= Len(st.inner) THEN [st EXCEPT !.ok = FALSE]
    ELSE [ok |-> TRUE, inner |-> WriteBit(st.inner, i, LowBit(st.value)),
          value |-> Shr1(st.value)]

\* The turns for i = hi, hi - 1, ..., lo in that order.
RECURSIVE set_bit_range_loop(_, _, _)
set_bit_range_loop(st, lo, hi) ==
    IF ~st.ok \/ lo > hi THEN st
    ELSE IF lo = hi THEN set_bit_range_step(st, hi)
    ELSE LET mid == (lo + hi) \div 2
         IN  set_bit_range_loop(set_bit_range_loop(st, mid + 1, hi), lo, mid)

set_bit_range(inner, msb, lsb, value) ==
    LET r == set_bit_range_loop([ok |-> TRUE, inner |-> inner, value |-> value], lsb, msb)
    IN  [ok |-> r.ok, inner |-> r.inner,
         panic |-> IF r.ok THEN "" ELSE "index out of bounds"]

(***************************************************************************)
(* bytes / set_bytes                                                       *)
(***************************************************************************)
\* One turn of `for i in (lsb..=msb).step_by(bit_len)`:
\* value.push(self.bit_range(i + 7, i) as u8)
bytes_step(inner, st, i, W) ==
    IF ~st.ok THEN st
    ELSE LET v == bit_range(inner, i + 7, i, W, TRUE)
         IN  IF ~v.ok THEN [ok |-> FALSE, value |-> st.value, panic |-> v.panic]
             ELSE [ok |-> TRUE, value |-> Append(st.value, AsU8(v.value)), panic |-> ""]

\* The turns for i = lsb + 8 * k, k = lo, ..., hi in that order.
RECURSIVE bytes_loop(_, _, _, _, _, _)
bytes_loop(inner, st, lsb, lo, hi, W) ==
    IF ~st.ok \/ lo > hi THEN st
    ELSE IF lo = hi THEN bytes_step(inner, st, lsb + bit_len * lo, W)
    ELSE LET mid == (lo + hi) \div 2
         IN  bytes_loop(inner, bytes_loop(inner, st, lsb, lo, mid, W), lsb, mid + 1, hi, W)

\* assert_eq!((msb-lsb+1)%bit_len, 0); then the loop       (lsb <= msb)
bytes(inner, msb, lsb, W) ==
    IF (msb - lsb + 1) % bit_len # 0
    THEN [ok |-> FALSE, value |-> << >>, panic |-> "assertion failed"]
    ELSE bytes_loop(inner, [ok |-> TRUE, value |-> << >>, panic |-> ""],
                    lsb, 0, ((msb - lsb) \div bit_len), W)

\* set_bytes_step without `iter += 1`
set_bytes_step_no_iter(st, i, W, value, iter) ==
    IF ~st.ok THEN st
    ELSE set_bit_range(st.inner, i + 7, i, Word(value[1], W))

\* One turn of `for i in (lsb..=msb).step_by(bit_len)`:
\* self.set_bit_range(i + 7, i, value[iter]); iter += 1;
set_bytes_step(st, i, W, value, iter) ==
    IF ~st.ok THEN st
    ELSE set_bit_range(st.inner, i + 7, i, Word(value[iter + 1], W))

\* set_bytes_loop taking the turns from the last byte of the run backwards
RECURSIVE set_bytes_loop_rev(_, _, _, _, _, _)
set_bytes_loop_rev(st, lsb, lo, hi, W, value) ==
    IF ~st.ok \/ lo > hi THEN st
    ELSE IF lo = hi THEN set_bytes_step(st, lsb + bit_len * lo, W, value, lo)
    ELSE LET mid == (lo + hi) \div 2
         IN  set_bytes_loop_rev(set_bytes_loop_rev(st, lsb, mid + 1, hi, W, value),
                                lsb, lo, mid, W, value)

\* The turns for iter = lo, ..., hi in that order, i = lsb + 8 * iter.
RECURSIVE set_bytes_loop(_, _, _, _, _, _)
set_bytes_loop(st, lsb, lo, hi, W, value) ==
    IF ~st.ok \/ lo > hi THEN st
    ELSE IF lo = hi THEN set_bytes_step(st, lsb + bit_len * lo, W, value, lo)
    ELSE LET mid == (lo + hi) \div 2
         IN  set_bytes_loop(set_bytes_loop(st, lsb, lo, mid, W, value), lsb, mid + 1, hi, W, value)

\* assert_eq!(value.len() * bit_len, msb-lsb+1); then the loop       (lsb <= msb)
set_bytes(inner, msb, lsb, W, value) ==
    IF Len(value) * bit_len # msb - lsb + 1
    THEN [ok |-> FALSE, inner |-> inner, panic |-> "assertion failed"]
    ELSE set_bytes_loop([ok |-> TRUE, inner |-> inner, panic |-> ""],
                        lsb, 0, ((msb - lsb) \div bit_len), W, value)

(***************************************************************************)
(* show                                                                    *)
(*                                                                         *)
(* What show prints for a field is kept as the sequence of the bytes it    *)
(* renders with {:02x}; the output of show is one such line per field.     *)
(***************************************************************************)
\* let x: u8 = self.bit_range(msb, lsb) as u8; print!("{:02x}", x);
\* appended to the bytes already printed on the line
show_byte(inner, st, msb, lsb, W) ==
    IF ~st.ok THEN st
    ELSE LET x == bit_range(inner, msb, lsb, W, TRUE)
         IN  IF ~x.ok THEN [ok |-> FALSE, value |-> st.value, panic |-> x.panic]
             ELSE [ok |-> TRUE, value |-> Append(st.value, AsU8(x.value)), panic |-> ""]

\* The three branches of show for one field:
\*   width <= 8       one byte, bit_range($end, $start)
\*   width % 8 == 0   d = width / 8 bytes, bit_range(i + 7, i) for
\*                    i in ($start..(d*8 + $start)).step_by(8)
\*   otherwise        the same d bytes, then bit_range($end, $end - r), r = width % 8
show_field(inner, f, W) ==
    LET width == f.end - f.start + 1
        d == width \div 8
        r == width % 8
        line == [ok |-> TRUE, value |-> << >>, panic |-> ""]
        full == bytes_loop(inner, line, f.start, 0, d - 1, W)
    IN  IF width <= 8 THEN show_byte(inner, line, f.end, f.start, W)
        ELSE IF r = 0 THEN full
        ELSE show_byte(inner, full, f.end, f.end - r, W)

\* The fields in declaration order, from field k on; a panic ends the output
\* after the lines already printed.
RECURSIVE show_loop(_, _, _, _, _)
show_loop(inner, fields, W, st, k) ==
    IF ~st.ok \/ k > Len(fields) THEN st
    ELSE LET l == show_field(inner, fields[k], W)
         IN  show_loop(inner, fields, W,
                       [ok |-> l.ok, value |-> Append(st.value, l.value), panic |-> l.panic],
                       k + 1)

show(inner, s) ==
    show_loop(inner, s.fields, WordBits(s.macro),
              [ok |-> TRUE, value |-> << >>, panic |-> ""], 1)

(***************************************************************************)
(* Header instances                                                        *)
(*                                                                         *)
(* mem is the store of byte vectors; a header is its schema name (its      *)
(* concrete type), whether it sits behind a Box<dyn Header>, and the       *)
(* vector it owns.  hdrs[1] is the header made by new(), hdrs[2] its       *)
(* clone.  view is the borrow obtained by narrowing a Box<dyn Header>.     *)
(***************************************************************************)
VARIABLES hdrs, mem, view, snap, touched, prevmem, last, panicked, nops, test_pc

vars == <<hdrs, mem, view, snap, touched, prevmem, last, panicked, nops, test_pc>>

NoView == [obj |-> 0, mut |-> FALSE]

\* new built from the zero-filled default of the macro's second arm
new_zeroed(s) == [k \in 1..Len(s.default) |-> 0]

\* $name{ inner: $x } / $name($x): the default expression, whatever its length
new(s) == s.default

\* self.inner.as_ref()
as_slice(h) == mem[h.buf]

\* len(&self) -> $size
len(h) == Schema(h.name).size

\* stringify!($name)
name(h) == h.name

\* clone sharing the vector of the original instead of copying it
clone_shared(hs, m, t, through_handle) ==
    [hdrs |-> Append(hs, [name |-> hs[t].name, boxed |-> through_handle, buf |-> hs[t].buf]),
     mem |-> m]

\* $name{ inner: self.inner.clone() }; through the handle Box::new(self.clone())
clone(hs, m, t, through_handle) ==
    [hdrs |-> Append(hs, [name |-> hs[t].name, boxed |-> through_handle, buf |-> Len(m) + 1]),
     mem |-> Append(m, m[hs[t].buf])]

\* narrow without the type test (an unchecked cast)
narrow_unchecked(hs, t, S) == [ok |-> TRUE, obj |-> t, panic |-> ""]

\* s.as_any().downcast_ref::<$name>(), panic!("Header is not a {}", stringify!($name))
narrow(hs, t, S) ==
    IF hs[t].name = S
    THEN [ok |-> TRUE, obj |-> t, panic |-> ""]
    ELSE [ok |-> FALSE, obj |-> 0, panic |-> "Header is not a " \o S]

Concrete(t) == ~hdrs[t].boxed
Readable(t) == Concrete(t) \/ view.obj = t
Writable(t) == Concrete(t) \/ (view.obj = t /\ view.mut)

LastOp(op, t, msb, lsb, arg, ret) ==
    [op |-> op, t |-> t, msb |-> msb, lsb |-> lsb, arg |-> arg, ret |-> ret]

(***************************************************************************)
(* Inputs                                                                  *)
(***************************************************************************)
Values == { U64(<< \hff, \hff, \hff, \hff, \hff, \hff, \hff, \hff >>),
            U64(<< \hfe, \hdc, \hba, \h98, \h76, \h54, \h32, \h10 >>) }

\* spans handed to bit_range / set_bit_range directly: 64 and 65 bits, unaligned
BitSpans == { [msb |-> 66, lsb |-> 3], [msb |-> 67, lsb |-> 3] }

\* spans handed to bytes / set_bytes: aligned, unaligned, 128 bits, a bit count
\* that is no multiple of 8, and one that runs past the declared size: three
\* unaligned bytes of which the last crosses the end (two aligned bytes, the
\* second past the end, where the size leaves no room for that)
ByteSpans(n) ==
    { [msb |-> 15, lsb |-> 0], [msb |-> 18, lsb |-> 3], [msb |-> 319, lsb |-> 192],
      [msb |-> 10, lsb |-> 0],
      IF Schema(n).size >= 3
      THEN [msb |-> 8 * Schema(n).size + 2, lsb |-> 8 * Schema(n).size - 21]
      ELSE [msb |-> 8 * Schema(n).size + 7, lsb |-> 8 * Schema(n).size - 8] }

Run(n) == [k \in 1..n |-> k]

\* the byte vectors handed to set_bytes for a span: one of the right length
\* (0x01, 0x02, ...) and one a byte short
Arrays(sp) ==
    LET n == (sp.msb - sp.lsb + 1) \div bit_len
    IN  { Run(n), Run(n - 1) }

(***************************************************************************)
(* Operations                                                              *)
(***************************************************************************)
Init ==
    /\ hdrs = << >>
    /\ mem = << >>
    /\ view = NoView
    /\ snap = << >>
    /\ touched = FALSE
    /\ prevmem = << >>
    /\ last = LastOp("none", 0, 0, 0, << >>, << >>)
    /\ panicked = ""
    /\ nops = 0
    /\ test_pc = 0

Live == hdrs # << >> /\ panicked = "" /\ test_pc = 0

\* let h = S::new();
New(s) ==
    /\ hdrs = << >> /\ test_pc = 0
    /\ hdrs' = << [name |-> s.name, boxed |-> FALSE, buf |-> 1] >>
    /\ mem' = << new(s) >>
    /\ prevmem' = mem
    /\ last' = LastOp("new", 1, 0, 0, s.name, << >>)
    /\ UNCHANGED <<view, snap, touched, panicked, nops, test_pc>>

\* let h: Box<dyn Header> = h.to_owned();
ToOwned ==
    /\ Live /\ nops = 0 /\ Len(hdrs) = 1 /\ Concrete(1)
    /\ hdrs' = [hdrs EXCEPT ![1].boxed = TRUE]
    /\ prevmem' = mem
    /\ last' = LastOp("to_owned", 1, 0, 0, << >>, << >>)
    /\ UNCHANGED <<mem, view, snap, touched, panicked, nops, test_pc>>

\* let v: &S = (&h).into();  /  let v: &mut S = (&mut h).into();
Narrow(t, S, mutable) ==
    /\ Live /\ nops < MaxOps /\ t \in 1..Len(hdrs) /\ hdrs[t].boxed /\ view = NoView
    /\ LET r == narrow(hdrs, t, S)
       IN  /\ view' = IF r.ok THEN [obj |-> r.obj, mut |-> mutable] ELSE view
           /\ panicked' = r.panic
    /\ nops' = nops + 1
    /\ prevmem' = mem
    /\ last' = LastOp("narrow", t, 0, 0, S, << >>)
    /\ UNCHANGED <<hdrs, mem, snap, touched, test_pc>>

\* One more operation of the run.
Count == nops' = nops + 1 /\ UNCHANGED test_pc

\* Reads leave the buffers alone; a panic ends the run.
ReadStep(op, t, msb, lsb, r) ==
    /\ prevmem' = mem
    /\ panicked' = r.panic
    /\ last' = LastOp(op, t, msb, lsb, << >>, r.value)
    /\ UNCHANGED <<hdrs, mem, view, snap, touched>>

WriteStep(op, t, msb, lsb, arg, r) ==
    /\ prevmem' = mem
    /\ mem' = [mem EXCEPT ![hdrs[t].buf] = r.inner]
    /\ panicked' = r.panic
    /\ touched' = (touched \/ t = 2)
    /\ last' = LastOp(op, t, msb, lsb, arg, << >>)
    /\ UNCHANGED <<hdrs, view, snap>>

\* h.f()
GetField(t, f) ==
    /\ Live /\ nops < MaxOps /\ Count /\ t = 1 /\ Readable(t)
    /\ f \in FieldsOf(hdrs[t].name)
    /\ \E overflow_checks \in BOOLEAN :
         ReadStep("get_field", t, f.end, f.start,
                  bit_range(as_slice(hdrs[t]), f.end, f.start, value_bit_len, overflow_checks))

\* h.set_f(v)
SetField(t, f, v) ==
    /\ Live /\ nops < MaxOps /\ Count /\ t \in 1..Len(hdrs) /\ Writable(t)
    /\ f \in FieldsOf(hdrs[t].name)
    /\ WriteStep("set_field", t, f.end, f.start, v,
                 set_bit_range(as_slice(hdrs[t]), f.end, f.start, v))

\* BitRange::<u64>::bit_range(&h, msb, lsb)
BitRange(t, sp) ==
    /\ Live /\ nops < MaxOps /\ Count /\ t = 1 /\ Readable(t)
    /\ \E overflow_checks \in BOOLEAN :
         ReadStep("bit_range", t, sp.msb, sp.lsb,
                  bit_range(as_slice(hdrs[t]), sp.msb, sp.lsb, value_bit_len, overflow_checks))

\* BitRange::<u64>::set_bit_range(&mut h, msb, lsb, v)
SetBitRange(t, sp, v) ==
    /\ Live /\ nops < MaxOps /\ Count /\ t = 1 /\ Writable(t)
    /\ WriteStep("set_bit_range", t, sp.msb, sp.lsb, v,
                 set_bit_range(as_slice(hdrs[t]), sp.msb, sp.lsb, v))

\* h.bytes(msb, lsb)
Bytes(t) ==
    /\ Live /\ nops < MaxOps /\ Count /\ t = 1 /\ Readable(t)
    /\ \E sp \in ByteSpans(hdrs[t].name) :
         ReadStep("bytes", t, sp.msb, sp.lsb,
                  bytes(as_slice(hdrs[t]), sp.msb, sp.lsb, WordBits(Schema(hdrs[t].name).macro)))

\* h.set_bytes(msb, lsb, &a)
SetBytes(t) ==
    /\ Live /\ nops < MaxOps /\ Count /\ t \in 1..Len(hdrs) /\ Writable(t)
    /\ \E sp \in ByteSpans(hdrs[t].name) : \E a \in Arrays(sp) :
         WriteStep("set_bytes", t, sp.msb, sp.lsb, a,
                   set_bytes(as_slice(hdrs[t]), sp.msb, sp.lsb,
                             WordBits(Schema(hdrs[t].name).macro), a))

\* h.show()   on the header itself or through the handle (Header::show)
Show(t) ==
    /\ Live /\ nops < MaxOps /\ Count /\ t = 1
    /\ ReadStep("show", t, 0, 0, show(as_slice(hdrs[t]), Schema(hdrs[t].name)))

\* let c = h.clone();   on the header itself or through the handle
Clone(through_handle) ==
    /\ Live /\ nops < MaxOps /\ Len(hdrs) = 1
    /\ IF through_handle THEN hdrs[1].boxed ELSE Readable(1)
    /\ LET c == clone(hdrs, mem, 1, through_handle)
       IN  /\ hdrs' = c.hdrs
           /\ mem' = c.mem
    /\ snap' = as_slice(hdrs[1])
    /\ nops' = nops + 1
    /\ prevmem' = mem
    /\ last' = LastOp("clone", 1, 0, 0, << >>, << >>)
    /\ UNCHANGED <<view, touched, panicked, test_pc>>

(***************************************************************************)
(* test_header_set                                                         *)
(***************************************************************************)
N(n) == Word(n, value_bit_len)

\* the low n bits of a word: `as u8`, `as u16`, `as u32`
Low(v, n) == SubSeq(v, Len(v) - n + 1, Len(v))

TSet(f, v) == [op |-> "set", f |-> f, v |-> v, cast |-> value_bit_len]
TEq(f, v, cast) == [op |-> "assert_eq", f |-> f, v |-> v, cast |-> cast]

test_header_set ==
    << TSet("bit1", N(0)),    TEq("bit1", N(0), 64),
       TSet("bit2", N(2)),    TEq("bit2", N(2), 64),
       TSet("bit3", N(3)),    TEq("bit3", N(3), 64),
       TSet("bit4", N(4)),    TEq("bit4", N(4), 64),
       TSet("bit5", N(5)),    TEq("bit5", N(5), 64),
       TSet("bit6", N(6)),    TEq("bit6", N(6), 64),
       TSet("bit7", N(7)),    TEq("bit7", N(7), 64),
       TSet("bit8", N(8)),    TEq("bit8", N(8), 64),
       TSet("bit9", N(9)),    TEq("bit9", N(9), 64),
       TSet("bit10", N(3)),   TEq("bit10", N(3), 64),
       TSet("byte1", N(1)),   TEq("byte1", N(1), 64),
       TSet("byte1", N(\hFF)),       TEq("byte1", N(255), 8),
       TSet("byte2", N(\hFFFF)),     TEq("byte2", N(\hFFFF), 16),
       TSet("byte3", N(\hFFFFFF)),   TEq("byte3", N(\hFFFFFF), 32),
       TSet("byte4", U64(<< 0, 0, 0, 0, \hFF, \hFF, \hFF, \hFF >>)),
       TEq("byte4", U64(<< 0, 0, 0, 0, \hFF, \hFF, \hFF, \hFF >>), 32),
       TSet("byte8", N(8)),   TEq("byte8", N(8), 64),
       TSet("byte8", U64(<< \hFF, \hFF, \hFF, \hFF, \hFF, \hFF, \hFF, \hFF >>)),
       TEq("byte8", U64(<< \hFF, \hFF, \hFF, \hFF, \hFF, \hFF, \hFF, \hFF >>), 64),
       [op |-> "set_bytes", f |-> "byte16", v |-> Run(16), cast |-> 0],
       [op |-> "bytes_eq", f |-> "byte16", v |-> Run(16), cast |-> 0] >>

\* The test, one statement a step; test_pc = 0 is `let mut test = Tester::new();`,
\* a failed assertion panics.
TestStep ==
    /\ panicked = "" /\ test_pc <= Len(test_header_set)
    /\ test_pc' = test_pc + 1
    /\ nops' = nops + 1
    /\ IF test_pc = 0
       THEN /\ hdrs = << >>
            /\ hdrs' = << [name |-> Tester.name, boxed |-> FALSE, buf |-> 1] >>
            /\ mem' = << new(Tester) >>
            /\ prevmem' = mem
            /\ last' = LastOp("new", 1, 0, 0, Tester.name, << >>)
            /\ UNCHANGED <<view, snap, touched, panicked>>
       ELSE LET st == test_header_set[test_pc]
                f == FieldNamed("Tester", st.f)
                inner == as_slice(hdrs[1])
            IN  CASE st.op = "set" ->
                       WriteStep("set_field", 1, f.end, f.start, st.v,
                                 set_bit_range(inner, f.end, f.start, st.v))
                  [] st.op = "assert_eq" ->
                       LET r == bit_range(inner, f.end, f.start, value_bit_len, TRUE)
                       IN  ReadStep("get_field", 1, f.end, f.start,
                                    IF r.ok /\ Low(r.value, st.cast) # Low(st.v, st.cast)
                                    THEN [r EXCEPT !.panic = "assertion failed"]
                                    ELSE r)
                  [] st.op = "set_bytes" ->
                       WriteStep("set_bytes", 1, f.end, f.start, st.v,
                                 set_bytes(inner, f.end, f.start, value_bit_len, st.v))
                  [] st.op = "bytes_eq" ->
                       LET r == bytes(inner, f.end, f.start, value_bit_len)
                       IN  ReadStep("bytes", 1, f.end, f.start,
                                    IF r.ok /\ r.value # st.v
                                    THEN [r EXCEPT !.panic = "assertion failed"]
                                    ELSE r)

Next ==
    \/ \E s \in Schemas : New(s)
    \/ ToOwned
    \/ \E t \in 1..2, S \in SchemaNames, m \in BOOLEAN : Narrow(t, S, m)
    \/ \E t \in 1..2, f \in UNION {FieldsOf(n) : n \in SchemaNames} : GetField(t, f)
    \/ \E t \in 1..2, f \in UNION {FieldsOf(n) : n \in SchemaNames}, v \in Values : SetField(t, f, v)
    \/ \E t \in 1..2, sp \in BitSpans : BitRange(t, sp)
    \/ \E t \in 1..2, sp \in BitSpans, v \in Values : SetBitRange(t, sp, v)
    \/ \E t \in 1..2 : Bytes(t)
    \/ \E t \in 1..2 : SetBytes(t)
    \/ \E t \in 1..2 : Show(t)
    \/ \E h \in BOOLEAN : Clone(h)
    \/ TestStep

Spec == Init /\ [][Next]_vars

(***************************************************************************)
(* Properties                                                              *)
(***************************************************************************)
\* packet bit i under MSB-0 numbering: bit 7 - (i mod 8) of byte i div 8
PacketBit(buf, i) == (buf[(i \div 8) + 1] \div (2 ^ (7 - (i % 8)))) % 2

\* v mod 2^w as a 64-bit word
Truncated(v, w) == [k \in 1..value_bit_len |-> IF k > value_bit_len - w THEN v[k] ELSE 0]

\* the 64-bit word whose bit k (0 = least significant) is packet bit msb - k
\* for k in 0..msb-lsb, and zero above
FieldValue(buf, msb, lsb) ==
    [k \in 1..value_bit_len |->
        IF value_bit_len - k <= msb - lsb THEN PacketBit(buf, msb - (value_bit_len - k)) ELSE 0]

Width == last.msb - last.lsb + 1
Target == as_slice(hdrs[last.t])
TargetBefore == prevmem[hdrs[last.t].buf]
Getter(buf, msb, lsb) == {bit_range(buf, msb, lsb, value_bit_len, oc) : oc \in BOOLEAN}
Returned(v) == [ok |-> TRUE, value |-> v, panic |-> ""]

\* C1: after set_f(v) on a field of width w <= 64 no error is raised and f()
\* returns v mod 2^w.
C1_SetGetRoundTrip ==
    (last.op = "set_field" /\ Width <= value_bit_len) =>
        /\ panicked = ""
        /\ Getter(Target, last.msb, last.lsb) = {Returned(Truncated(last.arg, Width))}

\* a setter has dropped bits of v above the width of its field, and changed the buffer
C1_Witness ==
    /\ last.op = "set_field" /\ Width < value_bit_len /\ panicked = ""
    /\ Truncated(last.arg, Width) # last.arg
    /\ Target # TargetBefore

\* C2: a bit-range write of an in-range span of at most 64 bits leaves every
\* buffer bit outside [lsb, msb] as it was (and every other buffer too).
C2_WriteFrame ==
    (/\ last.op \in {"set_field", "set_bit_range"}
     /\ last.lsb <= last.msb /\ Width <= value_bit_len /\ last.msb < 8 * len(hdrs[last.t])) =>
        /\ Len(mem) = Len(prevmem)
        /\ \A b \in 1..Len(mem) : b # hdrs[last.t].buf => mem[b] = prevmem[b]
        /\ Len(Target) = Len(TargetBefore)
        /\ \A i \in 0..(8 * Len(Target) - 1) :
              (i < last.lsb \/ i > last.msb) => PacketBit(Target, i) = PacketBit(TargetBefore, i)

\* a write that starts and ends inside bytes it shares with other bits, and changed the buffer
C2_Witness ==
    /\ last.op \in {"set_field", "set_bit_range"} /\ panicked = ""
    /\ last.lsb % 8 # 0 /\ (last.msb + 1) % 8 # 0 /\ last.msb \div 8 > last.lsb \div 8
    /\ Target # TargetBefore

\* C3: a bit-range read of a span of at most 64 bits inside the buffer returns
\* the word whose bit k is packet bit msb - k, zero above bit msb - lsb.
C3_ReadBits ==
    (/\ last.op \in {"get_field", "bit_range"}
     /\ last.lsb <= last.msb /\ Width <= value_bit_len /\ last.msb < 8 * Len(Target)) =>
        /\ panicked = ""
        /\ last.ret = FieldValue(Target, last.msb, last.lsb)

\* an unaligned read of exactly 64 bits whose top bit is set
C3_Witness ==
    /\ last.op = "bit_range" /\ panicked = ""
    /\ Width = value_bit_len /\ last.lsb % 8 # 0
    /\ last.ret[1] = 1

\* C4: set_bytes(msb, lsb, a) on a span inside the buffer with 8 * len(a) bits
\* succeeds, and bytes(msb, lsb) then returns a.
C4_BytesRoundTrip ==
    (/\ last.op = "set_bytes"
     /\ last.lsb <= last.msb /\ last.msb < 8 * Len(Target)
     /\ 8 * Len(last.arg) = Width) =>
        /\ panicked = ""
        /\ bytes(Target, last.msb, last.lsb, WordBits(Schema(hdrs[last.t].name).macro))
             = [ok |-> TRUE, value |-> last.arg, panic |-> ""]

\* a byte run of more than 64 bits has been written and changed the buffer
C4_Witness ==
    /\ last.op = "set_bytes" /\ panicked = ""
    /\ Width > value_bit_len
    /\ Target # TargetBefore

Writes == {"set_field", "set_bit_range", "set_bytes"}

C6_Narrowing ==
    /\ last.op = "narrow" =>
          /\ (panicked = "") <=> (name(hdrs[last.t]) = last.arg)
          /\ panicked = "" => view.obj = last.t
          /\ panicked # "" => (view = NoView /\ panicked = "Header is not a " \o last.arg)
    /\ (last.op = "set_field" /\ hdrs[last.t].boxed /\ Width <= value_bit_len) =>
          /\ view = [obj |-> last.t, mut |-> TRUE]
          /\ Getter(as_slice(hdrs[last.t]), last.msb, last.lsb)
               = {Returned(Truncated(last.arg, Width))}

\* an Ethernet header behind a handle has been written through its narrowed view
C6_Witness ==
    /\ hdrs # << >> /\ last.op = "set_field" /\ last.t = 1
    /\ name(hdrs[1]) = "Ethernet" /\ hdrs[1].boxed /\ view.obj = 1
    /\ Target # TargetBefore

\* C7 (as claimed): a bit-range read or write of more than 64 bits aborts and
\* leaves the buffer as it was.
C7_WideAccessAborts ==
    (last.op \in {"get_field", "set_field", "bit_range", "set_bit_range"}
       /\ Width > value_bit_len) =>
        (panicked # "" /\ mem = prevmem)

\* C8 (as claimed): new() of a schema whose default has not the declared size
\* aborts, so every instance has len(as_slice()) = len() = size.
C8_DefaultSizeChecked ==
    /\ (last.op = "new" /\ Len(Schema(last.arg).default) # Schema(last.arg).size) => panicked # ""
    /\ \A t \in 1..Len(hdrs) :
          Len(as_slice(hdrs[t])) = len(hdrs[t]) /\ len(hdrs[t]) = Schema(hdrs[t].name).size

(***************************************************************************)
(* Scenario S3: the setters of test_header_set                             *)
(***************************************************************************)
SetSteps(f) == {k \in 1..Len(test_header_set) :
                  test_header_set[k].op = "set" /\ test_header_set[k].f = f}

S3Fields == {f \in FieldsOf("Tester") : SetSteps(f.name) # {}}

\* the value the last setter of field f wrote
Written(f) ==
    test_header_set[CHOOSE k \in SetSteps(f.name) : \A j \in SetSteps(f.name) : j <= k].v

\* every setter of the test has run, on a Tester made by new()
SettersDone ==
    /\ test_pc > 0 /\ panicked = ""
    /\ \A k \in 1..Len(test_header_set) : test_header_set[k].op = "set" => k < test_pc

\* C9 (as claimed): after all the setters of S3, each getter returns the
\* value written to its own field.
C9_EachGetterReturnsWritten ==
    SettersDone =>
        \A f \in S3Fields :
            Getter(as_slice(hdrs[1]), f.end, f.start)
              = {Returned(Truncated(Written(f), field_size(f)))}

\* what the getters return after all the setters of S3: byte4 (bits 66-127)
\* was written after byte2 (56-71) and byte3 (72-95) and zeroed bits 66-95
AfterS3(f) ==
    IF f.name = "byte2" THEN N(\hFFC0)
    ELSE IF f.name = "byte3" THEN N(0)
    ELSE Truncated(Written(f), field_size(f))

\* C9 (amended): after all the setters of S3 the getters bit1..bit10, byte1,
\* byte4 and byte8 return the value written to their field, byte2() returns
\* 0xFFC0 and byte3() returns 0.
C9_GettersAfterS3 ==
    SettersDone =>
        \A f \in S3Fields :
            Getter(as_slice(hdrs[1]), f.end, f.start) = {Returned(AfterS3(f))}

\* the last setter of S3, set_byte8(0xFFFFFFFFFFFFFFFF), has just run
C9_Witness ==
    /\ SettersDone /\ last.op = "set_field"
    /\ last.msb = 191 /\ last.lsb = 128
    /\ last.arg = U64(<< \hFF, \hFF, \hFF, \hFF, \hFF, \hFF, \hFF, \hFF >>)

(***************************************************************************)
(* Scenario S6: the fields of a fresh Vlan                                 *)
(***************************************************************************)
\* a Vlan made by new() and at most read once since
FreshVlan ==
    /\ hdrs # << >> /\ name(hdrs[1]) = "Vlan" /\ test_pc = 0
    /\ \/ last.op = "new"
       \/ last.op = "get_field" /\ nops = 1 /\ ~hdrs[1].boxed

VlanReads(vid) ==
    \A f \in FieldsOf("Vlan") :
        LET v == CASE f.name = "pcp" -> N(0)
                   [] f.name = "cfi" -> N(0)
                   [] f.name = "vid" -> N(vid)
                   [] f.name = "etype" -> N(\h0800)
        IN  /\ Getter(as_slice(hdrs[1]), f.end, f.start) = {Returned(v)}
            /\ (last.op = "get_field" /\ last.msb = f.end /\ last.lsb = f.start) =>
                  (panicked = "" /\ last.ret = v)

\* C10 (as claimed): a fresh Vlan reads pcp 0, cfi 0, vid 0x0a8, etype 0x0800.
C10_VlanDefaultsAsClaimed == FreshVlan => VlanReads(\h0a8)

\* C10 (amended): a fresh Vlan reads pcp 0, cfi 0, vid 0x00a, etype 0x0800.
C10_VlanDefaults == FreshVlan => VlanReads(\h00a)

\* vid() has been called on a fresh Vlan
C10_Witness ==
    /\ FreshVlan /\ last.op = "get_field" /\ panicked = ""
    /\ last.msb = 15 /\ last.lsb = 4

(***************************************************************************)
(* show: fields that end in a partial byte                                 *)
(***************************************************************************)
\* the number whose binary digits are packet bits lo..hi, bit hi the lowest
PacketBits(buf, lo, hi) == BitsToNat([b \in 1..(hi - lo + 1) |-> PacketBit(buf, lo + b - 1)])

\* C11 (as claimed): for every field of width > 8 with r = width mod 8 # 0,
\* show renders floor(width/8) full bytes read as 8-bit ranges from start in
\* steps of 8, then one byte holding only the r trailing bits of the field,
\* so the last rendered byte is < 2^r.
C11_ShowPartialByte ==
    (last.op = "show" /\ panicked = "") =>
        \A k \in 1..Len(Schema(hdrs[last.t].name).fields) :
            LET f == Schema(hdrs[last.t].name).fields[k]
                d == field_size(f) \div 8
                r == field_size(f) % 8
                line == last.ret[k]
            IN  (field_size(f) > 8 /\ r # 0) =>
                    /\ Len(line) = d + 1
                    /\ \A j \in 1..d :
                          line[j] = PacketBits(Target, f.start + 8 * (j - 1), f.start + 8 * j - 1)
                    /\ line[d + 1] = PacketBits(Target, f.end - r + 1, f.end)
                    /\ line[d + 1] < 2 ^ r

(***************************************************************************)
(* set_bytes: the buffer when the call aborts                              *)
(***************************************************************************)
\* C12 (as claimed): when set_bytes(msb, lsb, value) aborts, on a length
\* mismatch or on a span with lsb inside the buffer and msb >= 8 * Size, the
\* buffer is byte for byte what it was before the call.
C12_SetBytesAllOrNothing ==
    (/\ last.op = "set_bytes" /\ panicked # ""
     /\ \/ 8 * Len(last.arg) # Width
        \/ (last.lsb < 8 * len(hdrs[last.t]) /\ last.msb >= 8 * len(hdrs[last.t]))) =>
        mem = prevmem

\* the number of leading 8-bit sub-ranges [lsb + 8k, lsb + 8k + 7] of a run
\* that end inside a buffer of n bytes
SubRangesInside(n, lsb) ==
    IF lsb + 7 >= 8 * n THEN 0 ELSE ((8 * n - 8 - lsb) \div 8) + 1

\* bit i of the packet as the run a, laid from bit lsb on, would have it
RunBit(a, lsb, i) == (a[((i - lsb) \div 8) + 1] \div (2 ^ (7 - ((i - lsb) % 8)))) % 2

\* C12 (amended): when set_bytes(msb, lsb, value) aborts on a length mismatch
\* the buffer is what it was before the call; when it aborts on a span that
\* runs past the end of the buffer, the bytes of value whose 8-bit sub-ranges
\* end inside the buffer have been written, in order, and every other bit of
\* the buffer (and every other buffer) is what it was before the call.
C12_SetBytesAbort ==
    (last.op = "set_bytes" /\ panicked # "" /\ last.lsb <= last.msb) =>
        /\ Len(mem) = Len(prevmem)
        /\ \A b \in 1..Len(mem) : b # hdrs[last.t].buf => mem[b] = prevmem[b]
        /\ Len(Target) = Len(TargetBefore)
        /\ IF 8 * Len(last.arg) # Width
           THEN panicked = "assertion failed" /\ Target = TargetBefore
           ELSE LET k == SubRangesInside(Len(Target), last.lsb)
                IN  /\ panicked = "index out of bounds"
                    /\ k < Len(last.arg)
                    /\ \A i \in 0..(8 * Len(Target) - 1) :
                          PacketBit(Target, i) =
                            IF last.lsb <= i /\ i < last.lsb + 8 * k
                            THEN RunBit(last.arg, last.lsb, i)
                            ELSE PacketBit(TargetBefore, i)

\* set_bytes has aborted past the end of the buffer after changing a byte of it
C12_Witness ==
    /\ last.op = "set_bytes" /\ panicked = "index out of bounds"
    /\ 8 * Len(last.arg) = Width
    /\ Target # TargetBefore
====
